---- MODULE Spec2Model ----
(***************************************************************************)
(* Beam analysis app (src/app.py): the input tables and fields of the      *)
(* Parametrization, the model builder create_model, the bending-moment     *)
(* view and the profile optimizer optimize_profile.                        *)
(*                                                                         *)
(* Numbers that are floats in the program are exact rationals here         *)
(* (records [num, den], den > 0, in lowest terms).  The anaStruct solver   *)
(* is an external library: it is represented by a deterministic function   *)
(* of the built model (Stable, MaxMoment) that depends on the geometry,    *)
(* the loads and the self-weight, and by the places at which its calls     *)
(* raise.                                                                  *)
(***************************************************************************)
EXTENDS Integers, Sequences, FiniteSets, TLC

VARIABLES params, response, probe

vars == <<params, response, probe>>

(***************************************************************************)
(* Bounds of the model.                                                    *)
(***************************************************************************)
MaxNodes == 4
MaxSupports == 2
MaxPointLoads == 1
MaxDistributedLoads == 1

(***************************************************************************)
(* Exact rational arithmetic standing in for Python floats.                *)
(***************************************************************************)
Abs(x) == IF x < 0 THEN -x ELSE x

RECURSIVE GCD(_, _)
GCD(a, b) == IF b = 0 THEN a ELSE GCD(b, a % b)

Rat(n, d) ==
    LET g == GCD(Abs(n), Abs(d))
        s == IF d < 0 THEN -1 ELSE 1
    IN  [num |-> (s * n) \div g, den |-> (s * d) \div g]

RatInt(n) == [num |-> n, den |-> 1]

RatAbs(a) == [num |-> Abs(a.num), den |-> a.den]

RatAdd(a, b) ==
    LET g == GCD(a.den, b.den)
    IN  Rat(a.num * (b.den \div g) + b.num * (a.den \div g), (a.den \div g) * b.den)

RatMul(a, b) ==
    LET g1 == GCD(Abs(a.num), b.den)
        g2 == GCD(Abs(b.num), a.den)
        h1 == IF g1 = 0 THEN 1 ELSE g1
        h2 == IF g2 = 0 THEN 1 ELSE g2
    IN  Rat((a.num \div h1) * (b.num \div h2), (a.den \div h2) * (b.den \div h1))

\* a / b for b # 0
RatDiv(a, b) ==
    RatMul(a, IF b.num < 0 THEN [num |-> -b.den, den |-> -b.num]
                           ELSE [num |-> b.den, den |-> b.num])

RatLess(a, b) ==
    LET g == GCD(a.den, b.den)
    IN  a.num * (b.den \div g) < b.num * (a.den \div g)

RatLeq(a, b) == ~RatLess(b, a)

\* round(x, 2) for x >= 0, as a number of hundredths; ties go to the even
\* hundredth, as Python's round does
Round2(a) ==
    LET t == 10 * (a.num % a.den)
        h == 10 * (t % a.den)
        q == 100 * (a.num \div a.den) + 10 * (t \div a.den) + (h \div a.den)
        r == h % a.den
    IN  IF 2 * r > a.den THEN q + 1
        ELSE IF 2 * r < a.den THEN q
        ELSE IF q % 2 = 0 THEN q ELSE q + 1

RECURSIVE RatSum(_)
RatSum(s) == IF s = <<>> THEN RatInt(0) ELSE RatAdd(s[1], RatSum(Tail(s)))

(***************************************************************************)
(* The profile catalog: the rows of profiles/steel-profiles-<type>.csv     *)
(* with the columns the program reads.  Second moment of area is in        *)
(* 10^6 mm4, Depth in mm, Weight in kg/m.                                  *)
(***************************************************************************)
Columns == {"Profile", "Second moment of area", "Depth", "Weight"}

Row(name, inertia, depth, weight) ==
    [c \in Columns |->
        CASE c = "Profile" -> name
          [] c = "Second moment of area" -> inertia
          [] c = "Depth" -> depth
          [] c = "Weight" -> weight]

ProfileTypes == {"IPE", "HEA", "HEB"}

Catalog(profile_type) ==
    CASE profile_type = "IPE" ->
            << Row("IPE200", 20, 200, 22), Row("IPE240", 39, 240, 31),
               Row("IPE300", 84, 300, 42) >>
      [] profile_type = "HEA" ->
            << Row("HEA200", 37, 190, 42), Row("HEA120", 6, 110, 20) >>
      [] profile_type = "HEB" ->
            << Row("HEB100", 4, 100, 20), Row("HEB200", 57, 200, 61) >>

SteelClasses == { <<"S", "2", "3", "5">>, <<"S", "2", "7", "5">>, <<"S", "3", "5", "5">> }

SupportTypes == {"Fixed", "Hinged", "Roll"}

(***************************************************************************)
(* str(i) and int(s) for the IDs the option fields carry.                  *)
(***************************************************************************)
Digits == <<"1", "2", "3", "4", "5", "6", "7", "8", "9">>

str(i) == Digits[i]

int(s) == CHOOSE i \in 1..Len(Digits) : Digits[i] = s

DigitValue(c) == IF c = "0" THEN 0 ELSE int(c)

\* float(text) for a text of three digits
float3(text) == 100 * DigitValue(text[1]) + 10 * DigitValue(text[2]) + DigitValue(text[3])

(***************************************************************************)
(* Option callbacks of the Parametrization.                                *)
(***************************************************************************)
\* the candidates cut down to the selected profile and those after it
get_profile_types_from_selected(p) ==
    LET names == [i \in 1..Len(Catalog(p.profile_type)) |->
                    Catalog(p.profile_type)[i]["Profile"]]
        at == {i \in 1..Len(names) : names[i] = p.profile}
    IN  IF at = {} THEN names
        ELSE SubSeq(names, CHOOSE i \in at : \A j \in at : i <= j, Len(names))

get_profile_types(p) ==
    [i \in 1..Len(Catalog(p.profile_type)) |-> Catalog(p.profile_type)[i]["Profile"]]

get_node_id_options(p) == [i \in 1..Len(p.nodes) |-> str(i)]

get_element_id_options(p) == [i \in 1..(Len(p.nodes) - 1) |-> str(i)]

(***************************************************************************)
(* Catalog lookups.  .item() raises ValueError unless exactly one row      *)
(* matches.                                                                *)
(***************************************************************************)
get_profile_property(profile_type, profile, property_name) ==
    LET df == Catalog(profile_type)
        rows == SelectSeq(df, LAMBDA row : row["Profile"] = profile)
    IN  IF Len(rows) = 1
        THEN [raised |-> "none", value |-> rows[1][property_name]]
        ELSE [raised |-> "ValueError", value |-> 0]

\* yield_strength = float(steel_class[-3:])
yield_strength_of(steel_class) ==
    float3(SubSeq(steel_class, Len(steel_class) - 2, Len(steel_class)))

\* the capacity with the half depth multiplied in instead of divided out
allowable_moment_times_depth(yield_strength, moment_of_inertia, profile_height) ==
    RatMul(RatInt(yield_strength * moment_of_inertia), Rat(profile_height, 2))

\* (yield_strength * moment_of_inertia) / (profile_height / 2)
allowable_moment_formula(yield_strength, moment_of_inertia, profile_height) ==
    RatDiv(RatInt(yield_strength * moment_of_inertia), Rat(profile_height, 2))

calculate_allowable_bending_moment(profile_type, profile, steel_class) ==
    LET inertia == get_profile_property(profile_type, profile, "Second moment of area")
        height == get_profile_property(profile_type, profile, "Depth")
        ys == yield_strength_of(steel_class)
    IN  IF inertia.raised # "none" \/ height.raised # "none"
        THEN [raised |-> "ValueError", moment_of_inertia |-> 0, profile_height |-> 0,
              yield_strength |-> 0, allowable_bending_moment |-> RatInt(0)]
        ELSE [raised |-> "none",
              moment_of_inertia |-> inertia.value,
              profile_height |-> height.value,
              yield_strength |-> ys,
              allowable_bending_moment |->
                  allowable_moment_formula(ys, inertia.value, height.value)]

\* uc = abs(max_moment / allowable_bending_moment)
unity_check(max_moment, allowable_moment) == RatAbs(RatDiv(max_moment, allowable_moment))

(***************************************************************************)
(* The anaStruct SystemElements object as the program uses it: the parts   *)
(* add_element, add_support_*, point_load and q_load record, where those   *)
(* calls reject an ID, and what solve() and get_element_result_range       *)
(* return.                                                                 *)
(***************************************************************************)
node_ids(ss) == 1..(Len(ss.elements) + 1)

element_ids(ss) == 1..Len(ss.elements)

\* add_support_* looks the node up in the node map (KeyError if absent)
support_accepted(ss, node_id) == node_id \in node_ids(ss)

\* q_load looks the element up in the element map (KeyError if absent)
q_load_accepted(ss, element_id) == element_id \in element_ids(ss)

ElementLength(el) ==
    Abs(el.location[2][1] - el.location[1][1]) + Abs(el.location[2][2] - el.location[1][2])

RestrainsX(kind) == kind \in {"Fixed", "Hinged"}

\* enough restraints for a chain of rigidly joined elements: a horizontal
\* restraint, and a clamped node or vertical restraints at two nodes
Stable(ss) ==
    /\ \E i \in 1..Len(ss.supports) : RestrainsX(ss.supports[i].kind)
    /\ \/ \E i \in 1..Len(ss.supports) : ss.supports[i].kind = "Fixed"
       \/ Cardinality({ss.supports[i].node_id : i \in 1..Len(ss.supports)}) >= 2

\* what ss.solve() raises: point_load stores the load unchecked, so a node
\* that does not exist is met only when the load vector is assembled
solve_raises(ss) ==
    IF \E i \in 1..Len(ss.loads_point) : ss.loads_point[i].node_id \notin node_ids(ss)
    THEN "IndexError"
    ELSE IF ~Stable(ss) THEN "Singular"
    ELSE "none"

\* the extreme bending moment of each element of a solved model
get_element_result_range(ss) ==
    LET F == RatSum([i \in 1..Len(ss.loads_point) |-> RatInt(ss.loads_point[i].Fy)])
        Q(k) == RatSum([j \in 1..Len(ss.loads_q) |->
                    IF ss.loads_q[j].element_id = k THEN RatInt(ss.loads_q[j].q)
                                                     ELSE RatInt(0)])
        L(k) == RatInt(ElementLength(ss.elements[k]))
    IN  [k \in 1..Len(ss.elements) |->
            RatAdd(F, RatMul(RatAdd(Q(k), RatMul(RatInt(-1), ss.elements[k].g)), L(k)))]

\* abs(max(range, key=abs)): the first entry of greatest magnitude
RECURSIVE MaxByAbs(_, _)
MaxByAbs(best, rest) ==
    IF rest = <<>> THEN best
    ELSE IF RatLess(RatAbs(best), RatAbs(rest[1])) THEN MaxByAbs(rest[1], Tail(rest))
    ELSE MaxByAbs(best, Tail(rest))

max_moment_of(ss) ==
    LET range == get_element_result_range(ss)
    IN  RatAbs(MaxByAbs(range[1], Tail(range)))

(***************************************************************************)
(* Controller.create_model                                                 *)
(***************************************************************************)
youngs_modulus == 210000 * 10^3

UnstableMessage ==
    "Calculation cannot be solved, probably because the structure is unstable. Check the supports."

NoModel == [EI |-> RatInt(0), elements |-> <<>>, supports |-> <<>>,
            loads_point |-> <<>>, loads_q |-> <<>>]

\* self.get_profile_property(..., "Weight") * 9.81 / 1000
weight_of(mass) == RatDiv(RatMul(RatInt(mass), Rat(981, 100)), RatInt(1000))

\* every element started at the first node
create_elements_hub(nodes, weight) ==
    [i \in 1..(Len(nodes) - 1) |->
        [location |-> << <<nodes[1].x, nodes[1].y>>, <<nodes[i + 1].x, nodes[i + 1].y>> >>,
         g |-> weight]]

\* for i, node in enumerate(nodes[:-1]): add_element([[node], [nodes[i + 1]]], g=weight)
create_elements(nodes, weight) ==
    [i \in 1..(Len(nodes) - 1) |->
        [location |-> << <<nodes[i].x, nodes[i].y>>, <<nodes[i + 1].x, nodes[i + 1].y>> >>,
         g |-> weight]]

create_model(p, solve_model) ==
    LET inertia == get_profile_property(p.profile_type, p.profile, "Second moment of area")
        moment_of_inertia == Rat(inertia.value, 10^6)
        mass == get_profile_property(p.profile_type, p.profile, "Weight")
        weight == IF p.include_weight THEN weight_of(mass.value) ELSE RatInt(0)
        withElements == [NoModel EXCEPT !.EI = RatMul(RatInt(youngs_modulus), moment_of_inertia),
                                        !.elements = create_elements(p.nodes, weight)]
        supports == [i \in 1..Len(p.supports) |->
                        [node_id |-> int(p.supports[i].node_id), kind |-> p.supports[i].type]]
        loads_point == [i \in 1..Len(p.point_loads) |->
                        [node_id |-> int(p.point_loads[i].node_id),
                         Fx |-> p.point_loads[i].fx, Fy |-> p.point_loads[i].fy]]
        loads_q == [i \in 1..Len(p.distributed_loads) |->
                        [element_id |-> int(p.distributed_loads[i].element_id),
                         q |-> p.distributed_loads[i].q]]
        ss == [withElements EXCEPT !.supports = supports, !.loads_point = loads_point,
                                   !.loads_q = loads_q]
        failure == solve_raises(ss)
    IN  IF inertia.raised # "none"
        THEN [raised |-> "ValueError", message |-> "", cause |-> "profile lookup", ss |-> NoModel]
        ELSE IF p.include_weight /\ mass.raised # "none"
        THEN [raised |-> "ValueError", message |-> "", cause |-> "profile lookup", ss |-> NoModel]
        ELSE IF \E i \in 1..Len(supports) : ~support_accepted(withElements, supports[i].node_id)
        THEN [raised |-> "KeyError", message |-> "", cause |-> "support node",
              ss |-> withElements]
        ELSE IF \E i \in 1..Len(loads_q) : ~q_load_accepted(withElements, loads_q[i].element_id)
        THEN [raised |-> "KeyError", message |-> "", cause |-> "load element",
              ss |-> withElements]
        ELSE IF solve_model /\ failure # "none"
        THEN [raised |-> "UserError", message |-> UnstableMessage,
              cause |-> IF failure = "Singular" THEN "unstable" ELSE "point load node",
              ss |-> ss]
        ELSE [raised |-> "none", message |-> "", cause |-> "none", ss |-> ss]

(***************************************************************************)
(* What a request hands back: the exception that left the handler (raised, *)
(* "none" if it returned), and what it returned.                           *)
(***************************************************************************)
NoData == [max_moment |-> RatInt(0), allowable_bending_moment |-> RatInt(0),
           uc |-> RatInt(0), status |-> "", status_message |-> "", profile |-> ""]

NoResponse == [req |-> "none", raised |-> "none", message |-> "", cause |-> "none",
               solve_model |-> FALSE, ss |-> NoModel, data |-> NoData,
               returned |-> FALSE, results |-> <<>>, built |-> <<>>]

ModelResponse(req, solve_model, m) ==
    [NoResponse EXCEPT !.req = req, !.raised = m.raised, !.message = m.message,
                       !.cause = m.cause, !.solve_model = solve_model, !.ss = m.ss,
                       !.returned = (m.raised = "none")]

(***************************************************************************)
(* Controller.show_bending_moments                                         *)
(***************************************************************************)
\* the view's threshold with UC = 1 let through
view_status_leq(uc) ==
    IF RatLeq(uc, RatInt(1))
    THEN [status |-> "SUCCESS", status_message |-> ""]
    ELSE [status |-> "ERROR", status_message |-> "UC should not exceed 1.0"]

\* if uc < 1: SUCCESS else ERROR
view_status(uc) ==
    IF RatLess(uc, RatInt(1))
    THEN [status |-> "SUCCESS", status_message |-> ""]
    ELSE [status |-> "ERROR", status_message |-> "UC should not exceed 1.0"]

show_bending_moments(p) ==
    LET m == create_model(p, TRUE)
        max_moment == max_moment_of(m.ss)
        results == calculate_allowable_bending_moment(p.profile_type, p.profile, p.steel_class)
        uc == unity_check(max_moment, results.allowable_bending_moment)
        st == view_status(uc)
    IN  IF m.raised # "none" THEN ModelResponse("show_bending_moments", TRUE, m)
        ELSE IF results.raised # "none"
        THEN [ModelResponse("show_bending_moments", TRUE, m) EXCEPT
                !.raised = results.raised, !.cause = "profile lookup", !.returned = FALSE]
        ELSE [ModelResponse("show_bending_moments", TRUE, m) EXCEPT
                !.data = [max_moment |-> max_moment,
                          allowable_bending_moment |-> results.allowable_bending_moment,
                          uc |-> uc, status |-> st.status,
                          status_message |-> st.status_message, profile |-> p.profile]]

(***************************************************************************)
(* Controller.optimize_profile                                             *)
(***************************************************************************)
\* the optimizer's threshold with UC = 1 let through
optimizer_accepts_leq(uc) == RatLeq(uc, RatInt(1))

\* if uc < 1: results.append(...)
optimizer_accepts(uc) == RatLess(uc, RatInt(1))

\* OptimizationResultElement({"input": {"profile": profile}}, {"uc": round(uc, 2)})
result_element(profile, uc) == [profile |-> profile, uc |-> Round2(uc)]

\* the candidate not written into the input
set_profile_copy(p, profile) == p

\* params["input"]["profile"] = profile
set_profile(p, profile) == [p EXCEPT !.profile = profile]

\* the result put at the head of the list
record_result_front(results, profile, uc) == <<result_element(profile, uc)>> \o results

\* results.append(OptimizationResultElement(...))
record_result(results, profile, uc) == Append(results, result_element(profile, uc))

\* the loop with a failing candidate skipped instead of ending the sweep
RECURSIVE optimize_loop_skip(_, _, _, _, _, _, _)
optimize_loop_skip(p, profile_type, steel_class, profiles, i, results, built) ==
    IF i > Len(profiles)
    THEN [params |-> p, raised |-> "none", message |-> "", cause |-> "none",
          returned |-> TRUE, results |-> results, built |-> built]
    ELSE
        LET profile == profiles[i]
            q == set_profile(p, profile)
            m == create_model(q, TRUE)
            allowable == calculate_allowable_bending_moment(profile_type, profile, steel_class)
            uc == unity_check(max_moment_of(m.ss), allowable.allowable_bending_moment)
        IN  optimize_loop_skip(q, profile_type, steel_class, profiles, i + 1,
                               IF m.raised = "none" /\ allowable.raised = "none"
                                  /\ optimizer_accepts(uc)
                               THEN record_result(results, profile, uc)
                               ELSE results,
                               Append(built, profile))

\* one pass of the loop body for profiles[i], then the rest of the loop;
\* built lists the candidates create_model was called for
RECURSIVE optimize_loop(_, _, _, _, _, _, _)
optimize_loop(p, profile_type, steel_class, profiles, i, results, built) ==
    IF i > Len(profiles)
    THEN [params |-> p, raised |-> "none", message |-> "", cause |-> "none",
          returned |-> TRUE, results |-> results, built |-> built]
    ELSE
        LET profile == profiles[i]
            q == set_profile(p, profile)
            m == create_model(q, TRUE)
            max_moment == max_moment_of(m.ss)
            allowable == calculate_allowable_bending_moment(profile_type, profile, steel_class)
            uc == unity_check(max_moment, allowable.allowable_bending_moment)
        IN  IF m.raised # "none"
            THEN [params |-> q, raised |-> m.raised, message |-> m.message, cause |-> m.cause,
                  returned |-> FALSE, results |-> <<>>, built |-> Append(built, profile)]
            ELSE IF allowable.raised # "none"
            THEN [params |-> q, raised |-> allowable.raised, message |-> "",
                  cause |-> "profile lookup",
                  returned |-> FALSE, results |-> <<>>, built |-> Append(built, profile)]
            ELSE optimize_loop(q, profile_type, steel_class, profiles, i + 1,
                               IF optimizer_accepts(uc)
                               THEN record_result(results, profile, uc)
                               ELSE results,
                               Append(built, profile))

optimize_profile(p) ==
    optimize_loop(p, p.profile_type, p.steel_class, get_profile_types(p), 1, <<>>, <<>>)

(***************************************************************************)
(* The state: params is the input the Parametrization holds, response the  *)
(* outcome of the last request made on it (an edit of the input discards   *)
(* it), probe a pair of capacity evaluations.                              *)
(***************************************************************************)
Range(s) == {s[i] : i \in 1..Len(s)}

RemoveAt(s, i) == SubSeq(s, 1, i - 1) \o SubSeq(s, i + 1, Len(s))

Spans == {3}
Fxs == {0}
Fys == {-15, -61}
Qs == {-5}

DefaultParams ==
    [nodes |-> << [x |-> 0, y |-> 0], [x |-> 5, y |-> 0],
                  [x |-> 10, y |-> 0], [x |-> 13, y |-> 0] >>,
     supports |-> << [node_id |-> "1", type |-> "Hinged"], [node_id |-> "3", type |-> "Roll"] >>,
     point_loads |-> << [node_id |-> "2", fx |-> 0, fy |-> -15] >>,
     distributed_loads |-> << [element_id |-> "3", q |-> -5] >>,
     profile_type |-> "IPE",
     profile |-> "IPE240",
     steel_class |-> <<"S", "2", "3", "5">>,
     include_weight |-> FALSE]

NoProbe == [evaluated |-> FALSE]

Init ==
    /\ params = DefaultParams
    /\ response = NoResponse
    /\ probe = NoProbe

Edit(p) ==
    /\ params' = p
    /\ response' = NoResponse
    /\ UNCHANGED probe

\* rows of the node table
AddNode ==
    /\ Len(params.nodes) < MaxNodes
    /\ \E d \in Spans :
         Edit([params EXCEPT !.nodes =
                 Append(@, [x |-> @[Len(@)].x + d, y |-> @[Len(@)].y])])

RemoveNode ==
    /\ Len(params.nodes) > 2
    /\ Edit([params EXCEPT !.nodes = SubSeq(@, 1, Len(@) - 1)])

\* rows of the support table; the node ID is picked from get_node_id_options
AddSupport ==
    /\ Len(params.supports) < MaxSupports
    /\ \E id \in Range(get_node_id_options(params)), t \in SupportTypes :
         Edit([params EXCEPT !.supports = Append(@, [node_id |-> id, type |-> t])])

RemoveSupport ==
    \E i \in 1..Len(params.supports) :
        Edit([params EXCEPT !.supports = RemoveAt(@, i)])

SetSupportType ==
    \E i \in 1..Len(params.supports), t \in SupportTypes :
        /\ params.supports[i].type # t
        /\ Edit([params EXCEPT !.supports[i].type = t])

\* rows of the point load table
AddPointLoad ==
    /\ Len(params.point_loads) < MaxPointLoads
    /\ \E id \in Range(get_node_id_options(params)), fx \in Fxs, fy \in Fys :
         Edit([params EXCEPT !.point_loads =
                 Append(@, [node_id |-> id, fx |-> fx, fy |-> fy])])

RemovePointLoad ==
    \E i \in 1..Len(params.point_loads) :
        Edit([params EXCEPT !.point_loads = RemoveAt(@, i)])

SetPointLoadFy ==
    \E i \in 1..Len(params.point_loads), fy \in Fys :
        /\ params.point_loads[i].fy # fy
        /\ Edit([params EXCEPT !.point_loads[i].fy = fy])

\* rows of the distributed load table; the element ID is picked from
\* get_element_id_options
AddDistributedLoad ==
    /\ Len(params.distributed_loads) < MaxDistributedLoads
    /\ \E id \in Range(get_element_id_options(params)), q \in Qs :
         Edit([params EXCEPT !.distributed_loads =
                 Append(@, [element_id |-> id, q |-> q])])

RemoveDistributedLoad ==
    \E i \in 1..Len(params.distributed_loads) :
        Edit([params EXCEPT !.distributed_loads = RemoveAt(@, i)])

\* the profile fields
SetProfileType ==
    \E t \in ProfileTypes :
        /\ params.profile_type # t
        /\ Edit([params EXCEPT !.profile_type = t])

SelectProfile ==
    \E name \in Range(get_profile_types(params)) :
        /\ params.profile # name
        /\ Edit([params EXCEPT !.profile = name])

SetSteelClass ==
    \E c \in SteelClasses :
        /\ params.steel_class # c
        /\ Edit([params EXCEPT !.steel_class = c])

ToggleWeight == Edit([params EXCEPT !.include_weight = ~@])

\* the views and the optimization button
CreateStructure ==
    /\ response' = ModelResponse("create_structure", FALSE, create_model(params, FALSE))
    /\ response' # response
    /\ UNCHANGED <<params, probe>>

ResultViews == {"show_reaction_forces", "show_shear_forces", "show_displacements"}

ShowResultView ==
    \E view \in ResultViews :
        /\ response' = ModelResponse(view, TRUE, create_model(params, TRUE))
        /\ response' # response
        /\ UNCHANGED <<params, probe>>

ShowBendingMoments ==
    /\ response' = show_bending_moments(params)
    /\ response' # response
    /\ UNCHANGED <<params, probe>>

OptimizeProfile ==
    LET out == optimize_profile(params)
    IN  /\ params' = out.params
        /\ response' = [NoResponse EXCEPT !.req = "optimize_profile", !.raised = out.raised,
                            !.message = out.message, !.cause = out.cause,
                            !.solve_model = TRUE, !.returned = out.returned,
                            !.results = out.results, !.built = out.built]
        /\ UNCHANGED probe

Next ==
    \/ AddNode
    \/ RemoveNode
    \/ SetSupportType
    \/ SetPointLoadFy
    \/ SetProfileType
    \/ SelectProfile
    \/ SetSteelClass
    \/ ToggleWeight
    \/ CreateStructure
    \/ ShowBendingMoments
    \/ OptimizeProfile

Spec == Init /\ [][Next]_vars

\* editing the rows of the tables, and building the model from them
NextEdit ==
    \/ AddNode
    \/ RemoveNode
    \/ AddSupport
    \/ RemoveSupport
    \/ AddPointLoad
    \/ RemovePointLoad
    \/ AddDistributedLoad
    \/ RemoveDistributedLoad
    \/ SetProfileType
    \/ CreateStructure
    \/ ShowResultView

SpecEdit == Init /\ [][NextEdit]_vars

(***************************************************************************)
(* The capacity formula on its own: two evaluations of the unity check,    *)
(* on inputs a and b drawn from the sets below.                            *)
(***************************************************************************)
ProbeInertias == {6, 20, 39}
ProbeDepths == {110, 200, 240}
ProbeDemands == {0, 30, 76}

ProbeInputs ==
    [steel_class : SteelClasses, inertia : ProbeInertias,
     depth : ProbeDepths, demand : ProbeDemands]

probe_uc(in) ==
    unity_check(RatInt(in.demand),
                allowable_moment_formula(yield_strength_of(in.steel_class), in.inertia, in.depth))

InitCap ==
    /\ params = DefaultParams
    /\ response = NoResponse
    /\ probe \in [evaluated : {FALSE}, a : ProbeInputs, b : ProbeInputs,
                  uc_a : {RatInt(0)}, uc_b : {RatInt(0)}]

EvaluateCapacity ==
    /\ ~probe.evaluated
    /\ probe' = [probe EXCEPT !.evaluated = TRUE,
                              !.uc_a = probe_uc(probe.a), !.uc_b = probe_uc(probe.b)]
    /\ UNCHANGED <<params, response>>

NextCap == EvaluateCapacity

SpecCap == InitCap /\ [][NextCap]_vars

SameExcept(field) ==
    \A f \in {"steel_class", "inertia", "depth", "demand"} :
        f # field => probe.a[f] = probe.b[f]

LowerIn(field) ==
    /\ probe.evaluated
    /\ SameExcept(field)
    /\ CASE field = "steel_class" ->
              yield_strength_of(probe.b.steel_class) < yield_strength_of(probe.a.steel_class)
         [] OTHER -> probe.b[field] < probe.a[field]

\* C6 (as stated): UC does not decrease when the demand grows (capacity
\* fixed), and UC does not increase when the depth or the yield strength is
\* lowered (the rest fixed).
C6_AsStated ==
    /\ LowerIn("demand") => RatLeq(probe.uc_b, probe.uc_a)
    /\ LowerIn("depth") => RatLeq(probe.uc_b, probe.uc_a)
    /\ LowerIn("steel_class") => RatLeq(probe.uc_b, probe.uc_a)

\* C6 (amended): UC does not decrease when the demand grows (capacity fixed);
\* lowering the depth never raises UC and lowers it when the demand is not
\* zero; lowering the yield strength never lowers UC and raises it when the
\* demand is not zero.
C6_Monotone ==
    /\ LowerIn("demand") => RatLeq(probe.uc_b, probe.uc_a)
    /\ LowerIn("depth") =>
         /\ RatLeq(probe.uc_b, probe.uc_a)
         /\ probe.a.demand # 0 => RatLess(probe.uc_b, probe.uc_a)
    /\ LowerIn("steel_class") =>
         /\ RatLeq(probe.uc_a, probe.uc_b)
         /\ probe.a.demand # 0 => RatLess(probe.uc_a, probe.uc_b)

C6_Witness ==
    /\ LowerIn("steel_class")
    /\ probe.a.demand # 0
    /\ RatLess(probe.uc_a, probe.uc_b)

(***************************************************************************)
(* Properties of the optimizer and the views.                              *)
(***************************************************************************)
IsSweep == response.req = "optimize_profile"

CatalogNames == get_profile_types(params)

\* peak absolute bending moment over allowable bending moment, for the
\* current structural input with the given profile of the current family
TrueUC(name) ==
    LET m == create_model([params EXCEPT !.profile = name], TRUE)
        cap == calculate_allowable_bending_moment(params.profile_type, name, params.steel_class)
    IN  RatDiv(max_moment_of(m.ss), cap.allowable_bending_moment)

Feasible(name) == RatLess(TrueUC(name), RatInt(1))

ResultProfiles == [i \in 1..Len(response.results) |-> response.results[i].profile]

\* C1: a sweep that returns has evaluated every catalog profile of the
\* family, and its result lists exactly the profiles whose unity check is
\* below 1, once each, in catalog order.
C1_ExactlyFeasible ==
    (IsSweep /\ response.returned) =>
        /\ response.built = CatalogNames
        /\ ResultProfiles = SelectSeq(CatalogNames, Feasible)
        /\ \A i, j \in 1..Len(ResultProfiles) : i # j => ResultProfiles[i] # ResultProfiles[j]

C1_Witness ==
    /\ IsSweep /\ response.returned
    /\ Len(response.results) >= 2
    /\ \E i \in 1..Len(CatalogNames) : ~Feasible(CatalogNames[i])

\* C2 (as stated): every pair of a sweep's result carries a UC value below 1
\* (the value is kept in hundredths).
C2_AsStated ==
    IsSweep => \A i \in 1..Len(response.results) : response.results[i].uc < 100

\* C2 (amended): every pair of a sweep's result belongs to a profile whose
\* unrounded unity check is below 1; the value it carries is that unity check
\* rounded to two decimals, which is at most 1.00.
C2_RoundedAtMostOne ==
    IsSweep => \A i \in 1..Len(response.results) :
        /\ Feasible(response.results[i].profile)
        /\ response.results[i].uc = Round2(TrueUC(response.results[i].profile))
        /\ response.results[i].uc <= 100

C2_Witness ==
    /\ IsSweep
    /\ \E i \in 1..Len(response.results) :
         /\ response.results[i].uc = 100
         /\ Feasible(response.results[i].profile)

FailsAt(i) == create_model([params EXCEPT !.profile = CatalogNames[i]], TRUE).raised # "none"

FirstFailure == CHOOSE i \in 1..Len(CatalogNames) :
                    FailsAt(i) /\ \A j \in 1..(i - 1) : ~FailsAt(j)

\* C3: a sweep in which building or solving some candidate fails ends with
\* that candidate's error: the candidates up to it and no later one were
\* built, and no result list is returned; a sweep without a failure returns
\* its list.
C3_FailureEndsSweep ==
    IsSweep =>
        IF \E i \in 1..Len(CatalogNames) : FailsAt(i)
        THEN /\ response.raised =
                    create_model([params EXCEPT !.profile = CatalogNames[FirstFailure]],
                                 TRUE).raised
             /\ ~response.returned
             /\ response.results = <<>>
             /\ response.built = SubSeq(CatalogNames, 1, FirstFailure)
        ELSE /\ response.raised = "none"
             /\ response.returned

C3_Witness ==
    /\ IsSweep
    /\ response.raised = "UserError"
    /\ response.cause = "unstable"
    /\ Len(response.built) < Len(CatalogNames)

AllProfileNames ==
    UNION { {Catalog(t)[i]["Profile"] : i \in 1..Len(Catalog(t))} : t \in ProfileTypes }

SameOutcome(out) ==
    /\ out.raised = response.raised
    /\ out.returned = response.returned
    /\ out.results = response.results
    /\ out.params = params

\* C7: running the sweep again gives the same outcome, on the input object
\* the first run left behind and on the same input with any profile selected.
C7_SameOnRerun ==
    IsSweep => \A name \in AllProfileNames :
                  SameOutcome(optimize_profile([params EXCEPT !.profile = name]))

C7_Witness ==
    /\ IsSweep /\ response.returned
    /\ params.include_weight
    /\ Len(response.results) >= 1
    /\ Len(response.results) < Len(CatalogNames)

SelectedRow ==
    CHOOSE r \in Range(Catalog(params.profile_type)) : r["Profile"] = params.profile

NodePoint(k) == <<params.nodes[k].x, params.nodes[k].y>>

\* C8: create_model builds one element per consecutive node pair, element k
\* from node k to node k+1, n-1 in all; the model has the rigidity E*I of the
\* selected profile (210 * I in kNm2 for I in 10^6 mm4) and every element the
\* same self-weight, mass * 9.81 / 1000 with the flag set and 0 without.
C8_OpenChain ==
    (response.req \in {"create_structure", "show_bending_moments"}
        /\ response.cause # "profile lookup") =>
        LET els == response.ss.elements
        IN  /\ Len(els) = Len(params.nodes) - 1
            /\ \A k \in 1..Len(els) :
                 /\ els[k].location = <<NodePoint(k), NodePoint(k + 1)>>
                 /\ els[k].g = IF params.include_weight
                               THEN Rat(SelectedRow["Weight"] * 981, 100000)
                               ELSE RatInt(0)
            /\ response.ss.EI = RatInt(210 * SelectedRow["Second moment of area"])

C8_Witness ==
    /\ response.req = "create_structure"
    /\ response.raised = "none"
    /\ params.include_weight
    /\ Len(response.ss.elements) = 3

ViewPasses == response.data.status = "SUCCESS" /\ response.data.status_message = ""

ViewFails ==
    /\ response.data.status = "ERROR"
    /\ response.data.status_message = "UC should not exceed 1.0"

\* C9: the bending-moment view reports pass exactly when UC < 1 and fail
\* exactly when UC >= 1, and it reports pass for the selected profile exactly
\* when a sweep over the same input lists that profile.
C9_SameThreshold ==
    (response.req = "show_bending_moments" /\ response.returned) =>
        /\ response.data.uc = TrueUC(params.profile)
        /\ ViewPasses <=> RatLess(response.data.uc, RatInt(1))
        /\ ViewFails <=> RatLeq(RatInt(1), response.data.uc)
        /\ ViewPasses <=>
             \E i \in 1..Len(optimize_profile(params).results) :
                 optimize_profile(params).results[i].profile = params.profile

C9_Witness ==
    /\ response.req = "show_bending_moments" /\ response.returned
    /\ response.data.uc = RatInt(1)
    /\ ViewFails

FrameFields ==
    {"nodes", "supports", "point_loads", "distributed_loads",
     "profile_type", "steel_class", "include_weight"}

\* C10: a sweep leaves every field of the input but the selected profile as
\* it was; the selected profile ends as the last catalog profile when the
\* sweep returns and as the failing candidate when it fails.
C10_SweepFrame ==
    [][response'.req = "optimize_profile" =>
        /\ \A f \in FrameFields : params'[f] = params[f]
        /\ response'.returned =>
             params'.profile = CatalogNames[Len(CatalogNames)]
        /\ ~response'.returned =>
             /\ params'.profile = response'.built[Len(response'.built)]
             /\ create_model(params', TRUE).raised # "none"]_vars

C10_Witness ==
    /\ IsSweep /\ ~response.returned
    /\ params.profile = response.built[Len(response.built)]
    /\ params.profile = CatalogNames[1]

(***************************************************************************)
(* Properties of the table edits and of the errors create_model raises.    *)
(***************************************************************************)
\* C4 (as stated): a request ends with the unstable-structure user error
\* exactly when it solves the model and the built structure is unstable.
C4_AsStated ==
    response.req # "none" =>
        ((response.raised = "UserError")
            <=> (/\ response.solve_model
                 /\ response.raised \notin {"KeyError", "ValueError"}
                 /\ ~Stable(response.ss)))

\* C5 (as stated): when create_model builds the model, every node ID of a
\* support or point load is in 1..node count and every element ID of a
\* distributed load is in 1..node count - 1.
C5_AsStated ==
    response.req # "none" =>
        /\ \A i \in 1..Len(params.supports) :
             int(params.supports[i].node_id) \in 1..Len(params.nodes)
        /\ \A i \in 1..Len(params.point_loads) :
             int(params.point_loads[i].node_id) \in 1..Len(params.nodes)
        /\ \A i \in 1..Len(params.distributed_loads) :
             int(params.distributed_loads[i].element_id) \in 1..(Len(params.nodes) - 1)

====
